---- MODULE Spec2Model ----
(***************************************************************************)
(* Model of p2p_manual_reconcile_tool.py: the per-row reconciliation loop  *)
(* update_reconcile_date, the lane updaters, execute_sql and the part of   *)
(* run() that prepares the reconcile date.                                 *)
(*                                                                         *)
(* Python values are records [t, s, n]: t is the type ("none", "str",      *)
(* "int", "date", "datetime"), s the characters of a str, n the value of   *)
(* an int.  Strings are sequences of one-character strings so that         *)
(* upper(), isdigit(), int() and replace() are computed, not assumed.      *)
(*                                                                         *)
(* A row (tran) is read-only.  Each of its cells except NETWORK_ID is read *)
(* by exactly one lane, so the cell's value is drawn in the step of the    *)
(* lane that reads it; NETWORK_ID, read by the MC and the VISA lane, is    *)
(* drawn when the row is taken from the list.                              *)
(*                                                                         *)
(* events is what the last step did, in order: the lines it wrote to       *)
(* fh_out and the calls it made on the two database handles.  cur tells    *)
(* which lane that step processed and what it read.  trail lists, for the  *)
(* current row, the lanes that have written or called so far; headers      *)
(* lists the 'Row N:' lines written since the run began.                   *)
(*                                                                         *)
(* The run starts after initialize(): both handles are connected and       *)
(* autocommit[h] is what initialize() assigned to handle h from the        *)
(* configuration.  col_headers is the first row of the worksheet, nrows    *)
(* the number of rows below it.                                            *)
(*                                                                         *)
(* pending[h] says that the session of handle h holds changes that are     *)
(* neither committed nor rolled back; persisted[h] says that the committed *)
(* contents of the store behind h differ from those at the start;          *)
(* closes[h] counts the calls of close() on handle h.                      *)
(***************************************************************************)
EXTENDS Integers, Sequences, FiniteSets, TLC

\* Bounds of the model.
MaxRows == 2
MaxRowCount == 1

VARIABLES pc, nrows, RPT_ONLY, RECONCILE_DATE, col_headers, autocommit, i, row_ct,
          reconcile_date, rpt_only, network_id, events, trail, headers, cur,
          pending, persisted, closes

\* What the run is given: the job arguments, the worksheet and the configuration.
inputs == <<nrows, RPT_ONLY, RECONCILE_DATE, col_headers, autocommit>>

\* The two database sessions and the stores behind them.
stores == <<pending, persisted, closes>>

vars == <<pc, inputs, i, row_ct, reconcile_date, rpt_only, network_id, events,
          trail, headers, cur, stores>>

-----------------------------------------------------------------------------
\* Python values

PyNone == [t |-> "none", s |-> <<>>, n |-> 0]
PyStr(chars) == [t |-> "str", s |-> chars, n |-> 0]
PyInt(k) == [t |-> "int", s |-> <<>>, n |-> k]
\* datetime.datetime.now() and datetime.date.today(): objects, not strings
NowDatetime == [t |-> "datetime", s |-> <<>>, n |-> 0]
TodayDate == [t |-> "date", s |-> <<>>, n |-> 0]
\* The cell of a row that no lane has read yet.
Unread == [t |-> "unread", s |-> <<>>, n |-> 0]

DigitChars == <<"0", "1", "2", "3", "4", "5", "6", "7", "8", "9">>
LowerChars == <<"a", "b", "c", "d", "e", "f", "g", "h", "i", "j", "k", "l", "m",
                "n", "o", "p", "q", "r", "s", "t", "u", "v", "w", "x", "y", "z">>
UpperChars == <<"A", "B", "C", "D", "E", "F", "G", "H", "I", "J", "K", "L", "M",
                "N", "O", "P", "Q", "R", "S", "T", "U", "V", "W", "X", "Y", "Z">>

\* bool(v): None, '' and 0 are false
Truthy(v) ==
    CASE v.t = "none" -> FALSE
      [] v.t = "str" -> Len(v.s) > 0
      [] v.t = "int" -> v.n # 0
      [] OTHER -> TRUE

RECURSIVE DecStr(_)
\* the decimal digits of k >= 0
DecStr(k) ==
    IF k < 10 THEN <<DigitChars[k + 1]>>
    ELSE DecStr(k \div 10) \o <<DigitChars[(k % 10) + 1]>>

\* str(v) and f"{v}"
PyStrOf(v) ==
    CASE v.t = "none" -> <<"N", "o", "n", "e">>
      [] v.t = "str" -> v.s
      [] v.t = "int" -> IF v.n < 0 THEN <<"-">> \o DecStr(0 - v.n) ELSE DecStr(v.n)
      [] OTHER -> <<"?">>

\* str.isdigit()
IsDigit(chars) ==
    /\ Len(chars) > 0
    /\ \A k \in 1..Len(chars) : \E d \in 1..Len(DigitChars) : DigitChars[d] = chars[k]

UpperChar(c) ==
    IF \E k \in 1..Len(LowerChars) : LowerChars[k] = c
    THEN UpperChars[CHOOSE k \in 1..Len(LowerChars) : LowerChars[k] = c]
    ELSE c

\* str.upper()
Upper(chars) == [k \in 1..Len(chars) |-> UpperChar(chars[k])]

\* Only a str has .upper(); on None or an int the call raises AttributeError.
HasUpper(v) == v.t = "str"

DigitVal(c) == (CHOOSE d \in 1..Len(DigitChars) : DigitChars[d] = c) - 1

RECURSIVE IntOfChars(_)
IntOfChars(chars) ==
    IF Len(chars) = 0 THEN 0
    ELSE 10 * IntOfChars(SubSeq(chars, 1, Len(chars) - 1)) + DigitVal(chars[Len(chars)])

\* int(v) of a value whose str(v).isdigit()
PyIntOf(v) == IF v.t = "int" THEN v.n ELSE IntOfChars(v.s)

\* str.replace(old, new) for one-character old and new
Replace(chars, old, new) ==
    [k \in 1..Len(chars) |-> IF chars[k] = old THEN new ELSE chars[k]]

\* date.today().strftime('%m/%d/%Y') and datetime.now().strftime('%m/%d/%Y')
TodayStrftime == PyStr(<<"1", "1", "/", "0", "4", "/", "2", "0", "2", "6">>)

-----------------------------------------------------------------------------
\* Inputs: job arguments, spreadsheet cells, what the database driver does

DateArgs == {PyNone, PyStr(<<"0", "1", "-", "1", "5", "-", "2", "0", "2", "4">>)}
RptOnlyArgs == {"Y", "N"}

\* script_data.p2p_dbh (payments store) and script_data.dna_dbh (ledger store)
Handles == {"p2p_dbh", "dna_dbh"}

\* config['database_config']['p2p_autocommit'] and ['dna_autocommit']: both off, as
\* in the db_connect calls, or both on
AutocommitConfigs == {[h \in Handles |-> FALSE], [h \in Handles |-> TRUE]}

\* config['valid_column_headers']
valid_column_headers ==
    <<"DETAIL_RECORD_ID", "PAYMENT_ID", "ACCTNBR", "RTXNNBR", "NETWORK_ID", "TRAN_TYPE",
      "UPDATE_DETAIL_RECORD", "UPDATE_PAYMENT", "UPDATE_RTXN", "UPDATE_VISA", "UPDATE_MC">>

\* A cell of the first row of the worksheet: a name, or None where the cell is empty.
HeaderCell(name) == [t |-> "str", name |-> name]
NoHeaderCell == [t |-> "none", name |-> ""]

\* The first len(valid_column_headers) cells of the first row: as configured, with
\* a wrong name in the first column, with the first two columns exchanged, with
\* the last column missing.
HeaderRows ==
    LET good == [k \in 1..Len(valid_column_headers) |-> HeaderCell(valid_column_headers[k])]
    IN  {good,
         [good EXCEPT ![1] = HeaderCell("INVALID_HEADER")],
         [good EXCEPT ![1] = good[2], ![2] = good[1]],
         [good EXCEPT ![Len(good)] = NoHeaderCell]}

FlagCells == {PyNone, PyStr(<<"Y">>), PyStr(<<"y">>), PyStr(<<"N">>)}
IdCells == {PyNone, PyStr(<<"4", "2">>), PyStr(<<"a", "b", "c">>), PyInt(7)}
NetworkCells == {PyNone, PyStr(<<>>), PyStr(<<"T", "1">>)}
TranTypeCells == {PyNone, PyStr(<<"C", "R", "E", "D", "I", "T">>),
                  PyStr(<<"d", "e", "b", "i", "t">>),
                  PyStr(<<"C", "A", "S", "H">>), PyInt(123)}

\* What the driver does in one call of execute_sql: conn.cursor() raises
\* (at = "cursor"), or cursor.execute raises (at = "execute"), str(e) being msg,
\* or the statement runs and leaves cursor.rowcount >= 0.
DriverOutcomes ==
    {[exc |-> FALSE, at |-> "none", rowcount |-> k, msg |-> <<>>] : k \in 0..MaxRowCount}
    \cup {[exc |-> TRUE, at |-> "cursor", rowcount |-> 0, msg |-> <<"D", "P", "Y">>],
          [exc |-> TRUE, at |-> "execute", rowcount |-> 0, msg |-> <<"O", "R", "A">>]}

-----------------------------------------------------------------------------
\* execute_sql and the lane updaters

\* Variant of ExecuteSql: the exception swallowed without its message.
ExecuteSqlNoMessage(d) ==
    IF d.exc THEN <<0, PyNone>> ELSE <<d.rowcount, PyNone>>

\* (rows_affected, error message)
ExecuteSql(d) ==
    IF d.exc THEN <<0, PyStr(d.msg)>> ELSE <<d.rowcount, PyNone>>

Text(fixed, chars) == [fixed |-> fixed, var |-> chars]
NoText == Text("", <<>>)

\* execute_sql(dbh, sql_statement, params): the statement is handed to the executor
Execute(dbh, sql, params) ==
    [op |-> "execute", dbh |-> dbh, sql |-> sql, params |-> params, text |-> NoText]

\* conn.cursor()
Cursor(dbh) ==
    [op |-> "cursor", dbh |-> dbh, sql |-> "", params |-> <<>>, text |-> NoText]

\* cursor.execute(sql_statement, params), or cursor.execute(sql_statement) when
\* params is empty
CursorExecute(dbh, sql, params) ==
    [op |-> "cursor_execute", dbh |-> dbh, sql |-> sql, params |-> params, text |-> NoText]

\* The calls execute_sql makes on the handle and its cursor: cursor.execute is
\* reached, once, unless conn.cursor() raised.
DriverCalls(dbh, sql, params, d) ==
    <<Cursor(dbh)>>
    \o (IF d.at = "cursor" THEN <<>> ELSE <<CursorExecute(dbh, sql, params)>>)

\* Variant of UpdateP2pReconDate: the two templates exchanged.
UpdateP2pReconDateSwapped(dbh, p2p_type, record_id, rdate, d) ==
    LET sql == IF p2p_type = "FTF" THEN "update_detail_record" ELSE "update_payment"
        params == IF Truthy(rdate) THEN <<rdate, PyInt(record_id)>>
                  ELSE <<TodayStrftime, PyInt(record_id)>>
    IN  [call |-> Execute(dbh, sql, params), ret |-> ExecuteSql(d)]

UpdateP2pReconDate(dbh, p2p_type, record_id, rdate, d) ==
    LET sql == IF p2p_type = "FTF" THEN "update_payment" ELSE "update_detail_record"
        params == IF Truthy(rdate) THEN <<rdate, PyInt(record_id)>>
                  ELSE <<TodayStrftime, PyInt(record_id)>>
    IN  [call |-> Execute(dbh, sql, params), ret |-> ExecuteSql(d)]

UpdateRtxnReconDate(dbh, acctnbr, rtxnnbr, rdate, d) ==
    LET date_value == IF Truthy(rdate) THEN rdate ELSE NowDatetime
        params == <<PyInt(acctnbr), PyInt(rtxnnbr), date_value,
                    PyInt(acctnbr), PyInt(rtxnnbr)>>
    IN  [call |-> Execute(dbh, "insert_rtxn_recon_date", params), ret |-> ExecuteSql(d)]

UpdateCardReconDate(dbh, network, network_tran_id, tran_code, rdate, d) ==
    LET date_value == IF Truthy(rdate) THEN rdate ELSE TodayDate
    IN  IF network = "MC"
        THEN [call |-> Execute(dbh, "update_mc_recon", <<date_value, network_tran_id>>),
              ret |-> ExecuteSql(d)]
        ELSE [call |-> Execute(dbh, "update_visa_recon",
                               <<date_value, network_tran_id, tran_code>>),
              ret |-> ExecuteSql(d)]

-----------------------------------------------------------------------------
\* The pieces of update_reconcile_date

\* Variant of LaneOrder: the two card lanes exchanged.
LaneOrderCardsSwapped == <<"detail", "payment", "rtxn", "visa", "mc">>

\* The order of the five lane blocks in the body of the for loop.
LaneOrder == <<"detail", "payment", "rtxn", "mc", "visa">>

LaneIndex(lane) == CHOOSE j \in 1..Len(LaneOrder) : LaneOrder[j] = lane

\* Where control goes after a lane: the next lane, or the head of the for loop.
PcAfter(lane) ==
    IF LaneIndex(lane) < Len(LaneOrder) THEN LaneOrder[LaneIndex(lane) + 1] ELSE "for"

\* Variant of RunDate: the argument passed on as given.
RunDateAsGiven(arg) == arg

\* run(): reconcile_date.replace('-', '/') when the argument was given
RunDate(arg) == IF Truthy(arg) THEN PyStr(Replace(arg.s, "-", "/")) ELSE arg

\* update_reconcile_date: today's date when none was given
EffectiveDate(rdate) == IF ~Truthy(rdate) THEN TodayStrftime ELSE rdate

\* Variant of FlagIsY: the comparison without upper().
FlagIsYCaseSensitive(flag) == flag.s = <<"Y">>

\* tran.get(flag, '').upper() == 'Y'
FlagIsY(flag) == Upper(flag.s) = <<"Y">>

\* not v or not str(v).isdigit()
NotNumeric(v) == ~Truthy(v) \/ ~IsDigit(PyStrOf(v))

\* Variant of Undefined: "network_id is None" in place of "not network_id".
UndefinedNoneOnly(v) == v.t = "none"

\* not network_id
Undefined(v) == ~Truthy(v)

\* not tran_type or tran_type.upper() not in ['CREDIT', 'DEBIT'];
\* evaluated only where tran_type is falsy or a str
BadTranType(v) ==
    \/ ~Truthy(v)
    \/ Upper(v.s) \notin {<<"C", "R", "E", "D", "I", "T">>, <<"D", "E", "B", "I", "T">>}

\* fh_out.write(text)
Write(text) ==
    [op |-> "write", dbh |-> "fh_out", sql |-> "", params |-> <<>>, text |-> text]

\* Variant of EndTxn: the flag compared with 'n'.
EndTxnLowerN(dbh, rpt) ==
    IF rpt = "n"
    THEN [op |-> "commit", dbh |-> dbh, sql |-> "", params |-> <<>>, text |-> NoText]
    ELSE [op |-> "rollback", dbh |-> dbh, sql |-> "", params |-> <<>>, text |-> NoText]

\* Variant of EndTxn: the two branches exchanged.
EndTxnInverted(dbh, rpt) ==
    IF rpt = "N"
    THEN [op |-> "rollback", dbh |-> dbh, sql |-> "", params |-> <<>>, text |-> NoText]
    ELSE [op |-> "commit", dbh |-> dbh, sql |-> "", params |-> <<>>, text |-> NoText]

\* dbh.commit() when rpt_only == 'N', else dbh.rollback()
EndTxn(dbh, rpt) ==
    IF rpt = "N"
    THEN [op |-> "commit", dbh |-> dbh, sql |-> "", params |-> <<>>, text |-> NoText]
    ELSE [op |-> "rollback", dbh |-> dbh, sql |-> "", params |-> <<>>, text |-> NoText]

\* Variant of ResultLine: zero rows reported as already populated, whatever err_msg.
ResultLineZeroIsPopulated(updated, err_msg, rdate) ==
    IF updated > 0
    THEN Text("Reconcile Date Updated: ", rdate.s)
    ELSE Text("Reconcile Date Not Updated: Reconcile Date is already populated", <<>>)

\* Variant of ResultLine: "updated > 1" in place of "updated > 0".
ResultLineOffByOne(updated, err_msg, rdate) ==
    IF updated # 0
    THEN IF updated > 1
         THEN Text("Reconcile Date Updated: ", rdate.s)
         ELSE Text("Reconcile Date Not Updated: Reconcile Date is already populated", <<>>)
    ELSE Text("Reconcile Date Not Updated: ", PyStrOf(err_msg))

\* The line written after the updater returned (updated, err_msg).
ResultLine(updated, err_msg, rdate) ==
    IF updated # 0
    THEN IF updated > 0
         THEN Text("Reconcile Date Updated: ", rdate.s)
         ELSE Text("Reconcile Date Not Updated: Reconcile Date is already populated", <<>>)
    ELSE Text("Reconcile Date Not Updated: ", PyStrOf(err_msg))

Label(lane) ==
    CASE lane = "detail" -> Text("DetailRecord Table Update Status:", <<>>)
      [] lane = "payment" -> Text("Payment Table Update Status:", <<>>)
      [] lane = "rtxn" -> Text("RTXN Entity Attribute Update Status:", <<>>)
      [] lane = "mc" -> Text("MC_ZELDLY Recon Table Update:", <<>>)
      [] lane = "visa" -> Text("VISA_RW3 Recon Table Update:", <<>>)

\* Variant of RtxnReasons: the second test as an elif of the first.
RtxnReasonsFirstOnly(acctnbr, rtxnnbr) ==
    IF NotNumeric(acctnbr)
    THEN <<Write(Text("Reconcile Date Not Updated: ACCTNBR is undefined or non-numeric", <<>>))>>
    ELSE IF NotNumeric(rtxnnbr)
    THEN <<Write(Text("Reconcile Date Not Updated: RTXNNBR is undefined or non-numeric", <<>>))>>
    ELSE <<>>

\* The reason lines of the RTXN lane, one per failing cell.
RtxnReasons(acctnbr, rtxnnbr) ==
    (IF NotNumeric(acctnbr)
     THEN <<Write(Text("Reconcile Date Not Updated: ACCTNBR is undefined or non-numeric", <<>>))>>
     ELSE <<>>)
    \o (IF NotNumeric(rtxnnbr)
        THEN <<Write(Text("Reconcile Date Not Updated: RTXNNBR is undefined or non-numeric", <<>>))>>
        ELSE <<>>)

\* The NETWORK_ID reason line of the VISA lane.
VisaNetworkReason(network) ==
    IF Undefined(network)
    THEN <<Write(Text("Reconcile Date Not Updated: NETWORK_ID is undefined", <<>>))>>
    ELSE <<>>

\* The TRAN_TYPE reason line of the VISA lane.
VisaTranTypeReason(tran_type) ==
    IF BadTranType(tran_type)
    THEN <<Write(Text("Reconcile Date Not Updated: TRAN_CODE is undefined or not CREDIT or DEBIT", <<>>))>>
    ELSE <<>>

\* Variant of RowHeader: data rows counted from 1, the header row left out.
RowHeaderDataIndex(ct) == Text("Row ", DecStr(ct - 1))

\* f"Row {row_ct}:"
RowHeader(ct) == Text("Row ", DecStr(ct))

\* What one call does to the sessions and stores st = [pending, persisted], d
\* being what the driver did with the statement.  A statement that changed
\* rows leaves them pending, or persists them at once on a handle in autocommit
\* mode; commit persists what is pending, rollback discards it.
Effect(e, st, d) ==
    CASE e.op = "cursor_execute" ->
            IF d.exc \/ d.rowcount = 0 THEN st
            ELSE IF autocommit[e.dbh]
                 THEN [st EXCEPT !.persisted[e.dbh] = TRUE, !.pending[e.dbh] = FALSE]
                 ELSE [st EXCEPT !.pending[e.dbh] = TRUE]
      [] e.op = "commit" ->
            [st EXCEPT !.persisted[e.dbh] = st.persisted[e.dbh] \/ st.pending[e.dbh],
                       !.pending[e.dbh] = FALSE]
      [] e.op = "rollback" -> [st EXCEPT !.pending[e.dbh] = FALSE]
      [] OTHER -> st

RECURSIVE Settled(_, _, _)
\* The sessions and stores after the calls evs, in order.
Settled(evs, st, d) ==
    IF evs = <<>> THEN st ELSE Settled(Tail(evs), Effect(Head(evs), st, d), d)

IsDbCall(e) == e.op \in {"execute", "cursor", "cursor_execute", "commit", "rollback"}

\* No call reached the driver.
NoDriver == [exc |-> FALSE, at |-> "none", rowcount |-> 0, msg |-> <<>>]

NoLane == [lane |-> "none", flag |-> Unread, a |-> Unread, b |-> Unread,
           called |-> FALSE, drv |-> NoDriver, ret |-> <<0, PyNone>>, raised |-> FALSE]

\* The lane's entry in trail, if it wrote or called anything.
Trailed(lane, evs) ==
    IF evs = <<>> THEN trail
    ELSE Append(trail, [row |-> row_ct, lane |-> lane,
                        db |-> \E k \in 1..Len(evs) : IsDbCall(evs[k])])

\* One lane has been processed to its end: evs is what it wrote and called, a and
\* b the identifier cells it read, drv what the driver did in the updater's call
\* and ret what the updater returned.  The last lane is followed by the blank
\* line that ends the row's block.
LaneDone(lane, flag, a, b, evs, called, drv, ret) ==
    /\ pc' = PcAfter(lane)
    /\ events' = evs \o (IF PcAfter(lane) = "for" THEN <<Write(Text("", <<>>))>> ELSE <<>>)
    /\ trail' = Trailed(lane, evs)
    /\ cur' = [lane |-> lane, flag |-> flag, a |-> a, b |-> b, called |-> called,
               drv |-> drv, ret |-> ret, raised |-> FALSE]
    /\ LET st == Settled(evs, [pending |-> pending, persisted |-> persisted], drv)
       IN  pending' = st.pending /\ persisted' = st.persisted
    /\ UNCHANGED <<inputs, i, row_ct, reconcile_date,
                   rpt_only, network_id, headers, closes>>

\* The flag is not 'Y': nothing is written or called.
Skipped(lane, flag) ==
    LaneDone(lane, flag, Unread, Unread, <<>>, FALSE, NoDriver, <<0, PyNone>>)

\* Validation failed: the label and the reason lines.
Rejected(lane, flag, a, b, reasons) ==
    LaneDone(lane, flag, a, b, <<Write(Label(lane))>> \o reasons, FALSE, NoDriver,
             <<0, PyNone>>)

\* Variant of Attempted: the result line written before the commit or rollback.
AttemptedReportsFirst(lane, flag, a, b, dbh, d, r) ==
    LaneDone(lane, flag, a, b,
             <<Write(Label(lane)), r.call>>
             \o DriverCalls(r.call.dbh, r.call.sql, r.call.params, d)
             \o <<Write(ResultLine(r.ret[1], r.ret[2], reconcile_date)),
                  EndTxn(dbh, rpt_only)>>,
             TRUE, d, r.ret)

\* Variant of Attempted: the commit or rollback always issued on p2p_dbh.
AttemptedEndsOnP2p(lane, flag, a, b, dbh, d, r) ==
    LaneDone(lane, flag, a, b,
             <<Write(Label(lane)), r.call>>
             \o DriverCalls(r.call.dbh, r.call.sql, r.call.params, d)
             \o <<EndTxn("p2p_dbh", rpt_only),
                  Write(ResultLine(r.ret[1], r.ret[2], reconcile_date))>>,
             TRUE, d, r.ret)

\* The updater was called and returned r: commit or roll back, then report.
Attempted(lane, flag, a, b, dbh, d, r) ==
    LaneDone(lane, flag, a, b,
             <<Write(Label(lane)), r.call>>
             \o DriverCalls(r.call.dbh, r.call.sql, r.call.params, d)
             \o <<EndTxn(dbh, rpt_only),
                  Write(ResultLine(r.ret[1], r.ret[2], reconcile_date))>>,
             TRUE, d, r.ret)

\* An exception leaves update_reconcile_date from within a lane.
LaneRaised(lane, flag, a, b, evs) ==
    /\ pc' = "raised"
    /\ events' = evs
    /\ trail' = Trailed(lane, evs)
    /\ cur' = [lane |-> lane, flag |-> flag, a |-> a, b |-> b, called |-> FALSE,
               drv |-> NoDriver, ret |-> <<0, PyNone>>, raised |-> TRUE]
    /\ LET st == Settled(evs, [pending |-> pending, persisted |-> persisted], NoDriver)
       IN  pending' = st.pending /\ persisted' = st.persisted
    /\ UNCHANGED <<inputs, i, row_ct, reconcile_date,
                   rpt_only, network_id, headers, closes>>

\* Variant of HeaderError: only the first column is compared.
HeaderErrorFirstOnly(cols) ==
    cols[1].t # "str" \/ cols[1].name # valid_column_headers[1]

\* parse_recon_file: some header differs from the configured name of its column
HeaderError(cols) ==
    \E k \in 1..Len(cols) :
        /\ k <= Len(valid_column_headers)
        /\ (cols[k].t # "str" \/ cols[k].name # valid_column_headers[k])

-----------------------------------------------------------------------------
\* The state machine

Init ==
    /\ pc = "parse"
    /\ nrows \in 0..MaxRows
    /\ RPT_ONLY \in RptOnlyArgs
    /\ RECONCILE_DATE \in DateArgs
    /\ col_headers \in HeaderRows
    /\ autocommit \in AutocommitConfigs
    /\ i = 0
    /\ row_ct = 0
    /\ reconcile_date = PyNone
    /\ rpt_only = "N"
    /\ network_id = Unread
    /\ events = <<>>
    /\ trail = <<>>
    /\ headers = <<>>
    /\ cur = NoLane
    /\ pending = [h \in Handles |-> FALSE]
    /\ persisted = [h \in Handles |-> FALSE]
    /\ closes = [h \in Handles |-> 0]

\* parse_recon_file: the headers are validated before any row is read; the
\* ValueError is caught nowhere and ends run()
ParseReconFile ==
    /\ pc = "parse"
    /\ pc' = IF HeaderError(col_headers) THEN "aborted" ELSE "run"
    /\ UNCHANGED <<inputs, i, row_ct, reconcile_date, rpt_only, network_id, events,
                   trail, headers, cur, stores>>

\* run() from the date argument to the call of update_reconcile_date, and that
\* function's prologue
Run ==
    /\ pc = "run"
    /\ pc' = "for"
    /\ reconcile_date' = EffectiveDate(RunDate(RECONCILE_DATE))
    /\ rpt_only' = RPT_ONLY
    /\ row_ct' = 1
    /\ UNCHANGED <<inputs, i, network_id, events, trail,
                   headers, cur, stores>>

\* for tran in trans_to_reconcile: the next row and the head of its block
NextRow ==
    /\ pc = "for"
    /\ i < nrows
    /\ i' = i + 1
    /\ row_ct' = row_ct + 1
    /\ \E cell \in NetworkCells : network_id' = cell
    /\ events' = <<Write(RowHeader(row_ct + 1)),
                   Write(Text("separator", <<>>)),
                   Write(Text("tran_line", <<>>))>>
    /\ headers' = Append(headers, RowHeader(row_ct + 1))
    /\ trail' = <<>>
    /\ cur' = NoLane
    /\ pc' = LaneOrder[1]
    /\ UNCHANGED <<inputs, reconcile_date, rpt_only, stores>>

\* the list is exhausted: return True
Return ==
    /\ pc = "for"
    /\ i = nrows
    /\ pc' = "done"
    /\ events' = <<>>
    /\ cur' = NoLane
    /\ UNCHANGED <<inputs, i, row_ct, reconcile_date,
                   rpt_only, network_id, trail, headers, stores>>

\* update_reconcile_date has returned and the output file is closed: run()
\* closes p2p_dbh, then dna_dbh, and returns True
Close ==
    /\ pc = "done"
    /\ pc' = "closed"
    /\ closes' = [h \in Handles |-> closes[h] + 1]
    /\ UNCHANGED <<inputs, i, row_ct, reconcile_date, rpt_only, network_id, events,
                   trail, headers, cur, pending, persisted>>

DetailLane ==
    /\ pc = "detail"
    /\ \E flag \in FlagCells :
        IF ~HasUpper(flag) THEN LaneRaised("detail", flag, Unread, Unread, <<>>)
        ELSE IF ~FlagIsY(flag) THEN Skipped("detail", flag)
        ELSE \E detail_record_id \in IdCells :
            IF NotNumeric(detail_record_id)
            THEN Rejected("detail", flag, detail_record_id, Unread,
                    <<Write(Text("Reconcile Date Not Updated: DetailRecord Id is undefined or non numeric", <<>>))>>)
            ELSE \E d \in DriverOutcomes :
                Attempted("detail", flag, detail_record_id, Unread, "p2p_dbh", d,
                    UpdateP2pReconDate("p2p_dbh", "ZELLE", PyIntOf(detail_record_id),
                                       reconcile_date, d))

PaymentLane ==
    /\ pc = "payment"
    /\ \E flag \in FlagCells :
        IF ~HasUpper(flag) THEN LaneRaised("payment", flag, Unread, Unread, <<>>)
        ELSE IF ~FlagIsY(flag) THEN Skipped("payment", flag)
        ELSE \E payment_id \in IdCells :
            IF NotNumeric(payment_id)
            THEN Rejected("payment", flag, payment_id, Unread,
                    <<Write(Text("Reconcile Date Not Updated: Payment Id is undefined or non numeric", <<>>))>>)
            ELSE \E d \in DriverOutcomes :
                Attempted("payment", flag, payment_id, Unread, "p2p_dbh", d,
                    UpdateP2pReconDate("p2p_dbh", "FTF", PyIntOf(payment_id),
                                       reconcile_date, d))

RtxnLane ==
    /\ pc = "rtxn"
    /\ \E flag \in FlagCells :
        IF ~HasUpper(flag) THEN LaneRaised("rtxn", flag, Unread, Unread, <<>>)
        ELSE IF ~FlagIsY(flag) THEN Skipped("rtxn", flag)
        ELSE \E acctnbr \in IdCells, rtxnnbr \in IdCells :
            IF NotNumeric(acctnbr) \/ NotNumeric(rtxnnbr)
            THEN Rejected("rtxn", flag, acctnbr, rtxnnbr, RtxnReasons(acctnbr, rtxnnbr))
            ELSE \E d \in DriverOutcomes :
                Attempted("rtxn", flag, acctnbr, rtxnnbr, "dna_dbh", d,
                    UpdateRtxnReconDate("dna_dbh", PyIntOf(acctnbr), PyIntOf(rtxnnbr),
                                        reconcile_date, d))

McLane ==
    /\ pc = "mc"
    /\ \E flag \in FlagCells :
        IF ~HasUpper(flag) THEN LaneRaised("mc", flag, Unread, Unread, <<>>)
        ELSE IF ~FlagIsY(flag) THEN Skipped("mc", flag)
        ELSE IF Undefined(network_id)
        THEN Rejected("mc", flag, network_id, Unread,
                <<Write(Text("Reconcile Date Not Updated: NETWORK_ID is undefined", <<>>))>>)
        ELSE \E d \in DriverOutcomes :
            Attempted("mc", flag, network_id, Unread, "dna_dbh", d,
                UpdateCardReconDate("dna_dbh", "MC", network_id, PyNone,
                                    reconcile_date, d))

VisaLane ==
    /\ pc = "visa"
    /\ \E flag \in FlagCells :
        IF ~HasUpper(flag) THEN LaneRaised("visa", flag, Unread, Unread, <<>>)
        ELSE IF ~FlagIsY(flag) THEN Skipped("visa", flag)
        ELSE \E tran_type \in TranTypeCells :
            \* tran_type.upper() is evaluated wherever tran_type is truthy: in the
            \* outer test if network_id is truthy, else after the NETWORK_ID line
            IF Truthy(tran_type) /\ ~HasUpper(tran_type)
            THEN LaneRaised("visa", flag, network_id, tran_type,
                            <<Write(Label("visa"))>> \o VisaNetworkReason(network_id))
            ELSE IF Undefined(network_id) \/ BadTranType(tran_type)
            THEN Rejected("visa", flag, network_id, tran_type,
                    VisaNetworkReason(network_id) \o VisaTranTypeReason(tran_type))
            ELSE \E d \in DriverOutcomes :
                Attempted("visa", flag, network_id, tran_type, "dna_dbh", d,
                    UpdateCardReconDate("dna_dbh", "VISA", network_id, tran_type,
                                        reconcile_date, d))

Next ==
    \/ ParseReconFile
    \/ Run
    \/ NextRow
    \/ Return
    \/ Close
    \/ DetailLane
    \/ PaymentLane
    \/ RtxnLane
    \/ McLane
    \/ VisaLane

Spec == Init /\ [][Next]_vars

-----------------------------------------------------------------------------
\* What the properties below read off a state.  These say what the specification
\* means by an attempted lane, a valid cell and an outcome line; they do not use
\* the tests of the code modelled above.

\* The flag cell is 'Y' or 'y'.
CurFlagY == cur.flag \in {PyStr(<<"Y">>), PyStr(<<"y">>)}

\* A cell that is present and all-digit.
CellNumeric(v) ==
    \/ /\ v.t = "str"
       /\ Len(v.s) > 0
       /\ \A k \in 1..Len(v.s) :
            v.s[k] \in {"0", "1", "2", "3", "4", "5", "6", "7", "8", "9"}
    \/ v.t = "int" /\ v.n > 0

\* A cell that is present (non-empty).
CellPresent(v) == (v.t = "str" /\ Len(v.s) > 0) \/ (v.t = "int" /\ v.n # 0)

\* A cell that holds CREDIT or DEBIT in any case.
CellCreditDebit(v) ==
    /\ v.t = "str"
    /\ \E w \in {<<"C", "R", "E", "D", "I", "T">>, <<"D", "E", "B", "I", "T">>} :
        /\ Len(w) = Len(v.s)
        /\ \A k \in 1..Len(w) : UpperChar(v.s[k]) = w[k]

\* The cells of the lane of the last step that fail its validation (section 4.1).
CurFailing ==
    CASE cur.lane \in {"detail", "payment"} ->
            IF CellNumeric(cur.a) THEN {} ELSE {"a"}
      [] cur.lane = "rtxn" ->
            (IF CellNumeric(cur.a) THEN {} ELSE {"a"})
            \cup (IF CellNumeric(cur.b) THEN {} ELSE {"b"})
      [] cur.lane = "mc" -> IF CellPresent(cur.a) THEN {} ELSE {"a"}
      [] cur.lane = "visa" ->
            (IF CellPresent(cur.a) THEN {} ELSE {"a"})
            \cup (IF CellCreditDebit(cur.b) THEN {} ELSE {"b"})
      [] OTHER -> {}

\* The last step processed a lane whose flag is Y and whose cells pass validation.
CurValidated == cur.lane # "none" /\ CurFlagY /\ CurFailing = {}

\* The last step processed a lane whose flag is Y and whose validation fails.
CurInvalid == cur.lane # "none" /\ CurFlagY /\ CurFailing # {}

\* The handle a lane works on (section 3).
HandleOf(lane) == IF lane \in {"detail", "payment"} THEN "p2p_dbh" ELSE "dna_dbh"

LabelTexts == {"DetailRecord Table Update Status:", "Payment Table Update Status:",
               "RTXN Entity Attribute Update Status:", "MC_ZELDLY Recon Table Update:",
               "VISA_RW3 Recon Table Update:"}

IsLabel(e) == e.op = "write" /\ e.text.fixed \in LabelTexts
IsOutcome(e) == e.op = "write" /\ e.text.fixed \notin LabelTexts /\ e.text # NoText
IsCommit(e) == e.op = "commit"
IsRollback(e) == e.op = "rollback"
IsExecute(e) == e.op = "execute"

\* The outcome lines, the label lines and the database calls of the last step.
OutcomeLines == SelectSeq(events, IsOutcome)
LabelLines == SelectSeq(events, IsLabel)
DbCalls == SelectSeq(events, IsDbCall)

\* The reconcile date in effect: the override with '/' for '-', else today.
ExpectedDate ==
    IF RECONCILE_DATE = PyNone THEN TodayStrftime.s
    ELSE <<"0", "1", "/", "1", "5", "/", "2", "0", "2", "4">>

-----------------------------------------------------------------------------
\* C1: a validated lane whose executor call returns zero rows and no error
\* message writes the line 'Reconcile Date Not Updated: Reconcile Date is already
\* populated' as its outcome line, in each of the five lanes.
C1_ZeroRowsAlreadyPopulated ==
    (CurValidated /\ cur.called /\ cur.ret = <<0, PyNone>>)
        => OutcomeLines =
            <<Write(Text("Reconcile Date Not Updated: Reconcile Date is already populated", <<>>))>>

\* C2: in apply mode (rpt_only = 'N') every validated lane calls commit exactly
\* once, on its own handle, and never rollback, whatever the executor reported.
C2_ApplyCommitsOnce ==
    (RPT_ONLY = "N" /\ CurValidated)
        => /\ Len(SelectSeq(events, IsCommit)) = 1
           /\ SelectSeq(events, IsCommit)[1].dbh = HandleOf(cur.lane)
           /\ SelectSeq(events, IsRollback) = <<>>

\* A validated lane in apply mode whose statement failed, and which committed.
C2_Witness ==
    /\ RPT_ONLY = "N"
    /\ CurValidated
    /\ cur.drv.exc
    /\ Len(SelectSeq(events, IsCommit)) = 1

\* C3: in report-only mode (rpt_only = 'Y') no step ever calls commit, and every
\* validated lane calls rollback exactly once, on its own handle.
C3_ReportOnlyRollsBackOnce ==
    (RPT_ONLY = "Y")
        => /\ SelectSeq(events, IsCommit) = <<>>
           /\ CurValidated
                => /\ Len(SelectSeq(events, IsRollback)) = 1
                   /\ SelectSeq(events, IsRollback)[1].dbh = HandleOf(cur.lane)

\* A validated ledger lane in report-only mode that updated a row and rolled back.
C3_Witness ==
    /\ RPT_ONLY = "Y"
    /\ CurValidated
    /\ cur.lane = "rtxn"
    /\ cur.ret[1] > 0
    /\ Len(SelectSeq(events, IsRollback)) = 1

\* C4: a lane whose flag is Y and whose validation fails makes no database call:
\* its updater is not invoked and nothing is executed, committed or rolled back
\* between its label line and the next lane.
C4_InvalidNoDbCall ==
    CurInvalid => (~cur.called /\ DbCalls = <<>>)

\* A Mastercard lane rejected for its empty NETWORK_ID, after writing its reason.
C4_Witness ==
    /\ CurInvalid
    /\ cur.lane = "mc"
    /\ cur.a = PyStr(<<>>)
    /\ Len(OutcomeLines) = 1
    /\ DbCalls = <<>>

\* C5: a lane runs iff its flag is 'Y' or 'y': then its label line is the first
\* thing written; for any other flag the lane writes no label and no outcome line
\* and executes, commits and rolls back nothing.
C5_RunsIffFlagY ==
    (cur.lane # "none")
        => IF CurFlagY
           THEN /\ events # <<>>
                /\ events[1] = Write(Label(cur.lane))
           ELSE /\ LabelLines = <<>>
                /\ OutcomeLines = <<>>
                /\ DbCalls = <<>>
                /\ ~cur.called

\* A lane run on the lower-case flag 'y' that reached the database.
C5_Witness ==
    /\ cur.flag = PyStr(<<"y">>)
    /\ cur.called
    /\ Len(LabelLines) = 1

\* C6: a validated lane whose statement fails in the driver writes the single
\* outcome line 'Reconcile Date Not Updated: <the driver's message>', raises
\* nothing, and control goes on to the next lane or the next row.
C6_SqlErrorReported ==
    (CurValidated /\ cur.drv.exc)
        => /\ OutcomeLines = <<Write(Text("Reconcile Date Not Updated: ", cur.drv.msg))>>
           /\ ~cur.raised
           /\ pc \in {"payment", "rtxn", "mc", "visa", "for"}

\* A failed statement in the first lane, with the payment lane up next.
C6_Witness ==
    /\ CurValidated
    /\ cur.lane = "detail"
    /\ cur.drv.exc
    /\ pc = "payment"

\* C7: a validated lane whose executor call returns rows affected > 0 and no error
\* writes the single outcome line 'Reconcile Date Updated: <effective date>'; in
\* apply mode it commits once.
C7_UpdatedLine ==
    (CurValidated /\ cur.called /\ cur.ret[1] > 0 /\ cur.ret[2] = PyNone)
        => /\ OutcomeLines = <<Write(Text("Reconcile Date Updated: ", ExpectedDate))>>
           /\ (RPT_ONLY = "N") => Len(SelectSeq(events, IsCommit)) = 1

\* The Mastercard lane in apply mode, one row updated, date 01/15/2024.
C7_Witness ==
    /\ cur.lane = "mc"
    /\ RPT_ONLY = "N"
    /\ cur.ret = <<1, PyNone>>
    /\ OutcomeLines = <<Write(Text("Reconcile Date Updated: ",
                                   <<"0", "1", "/", "1", "5", "/", "2", "0", "2", "4">>))>>
    /\ Len(SelectSeq(events, IsCommit)) = 1

\* The position of a lane in the order Detail Record, Payment, RTXN, Mastercard, Visa.
LaneRank(lane) ==
    CASE lane = "detail" -> 1
      [] lane = "payment" -> 2
      [] lane = "rtxn" -> 3
      [] lane = "mc" -> 4
      [] lane = "visa" -> 5
      [] OTHER -> 0

\* C8: within a row the lanes write and call in the order Detail Record, Payment,
\* RTXN, Mastercard, Visa; rows are taken in input order, row k under 'Row k+1';
\* whatever a step writes or calls belongs to the lane and row then current.
C8_Ordered ==
    /\ \A k \in 1..Len(trail) : trail[k].row = row_ct /\ LaneRank(trail[k].lane) > 0
    /\ \A k \in 1..(Len(trail) - 1) : LaneRank(trail[k].lane) < LaneRank(trail[k + 1].lane)
    /\ Len(headers) = i
    /\ \A k \in 1..Len(headers) : headers[k] = Text("Row ", DecStr(k + 1))
    /\ (pc \notin {"parse", "aborted", "run"}) => row_ct = i + 1
    /\ (cur.lane # "none" /\ (OutcomeLines # <<>> \/ LabelLines # <<>> \/ DbCalls # <<>>))
            => /\ trail # <<>>
               /\ trail[Len(trail)].lane = cur.lane
               /\ \A k \in 1..Len(LabelLines) : LabelLines[k] = Write(Label(cur.lane))

\* All five lanes of the second row have called the database, Visa last.
C8_Witness ==
    /\ Len(trail) = 5
    /\ \A k \in 1..5 : trail[k].db
    /\ row_ct = 3
    /\ cur.lane = "visa"

\* C9: update_reconcile_date always returns, having written a 'Row N:' block for
\* every input row; no lane makes it end with an exception.
C9_AlwaysReturns ==
    /\ pc # "raised"
    /\ (pc = "done") => Len(headers) = nrows

AcctnbrReason ==
    Write(Text("Reconcile Date Not Updated: ACCTNBR is undefined or non-numeric", <<>>))
RtxnnbrReason ==
    Write(Text("Reconcile Date Not Updated: RTXNNBR is undefined or non-numeric", <<>>))
NetworkIdReason ==
    Write(Text("Reconcile Date Not Updated: NETWORK_ID is undefined", <<>>))
TranCodeReason ==
    Write(Text("Reconcile Date Not Updated: TRAN_CODE is undefined or not CREDIT or DEBIT", <<>>))

\* The line e is among the outcome lines of the last step.
Wrote(e) == \E k \in 1..Len(OutcomeLines) : OutcomeLines[k] = e

\* C11: validation is independent per field.  In the RTXN lane the ACCTNBR line
\* is written iff ACCTNBR is missing or non-digit and the RTXNNBR line iff RTXNNBR
\* is missing or non-digit; in the Visa lane the NETWORK_ID line is written iff
\* NETWORK_ID is empty and the TRAN_CODE line iff TRAN_TYPE is missing or not
\* CREDIT/DEBIT in any case; the updater is invoked iff no reason line was written.
C11_FieldwiseReasons ==
    (CurFlagY /\ cur.lane \in {"rtxn", "visa"})
        => /\ (cur.lane = "rtxn") =>
                /\ Wrote(AcctnbrReason) <=> ("a" \in CurFailing)
                /\ Wrote(RtxnnbrReason) <=> ("b" \in CurFailing)
           /\ (cur.lane = "visa") =>
                /\ Wrote(NetworkIdReason) <=> ("a" \in CurFailing)
                /\ Wrote(TranCodeReason) <=> ("b" \in CurFailing)
           /\ cur.called <=>
                ~(Wrote(AcctnbrReason) \/ Wrote(RtxnnbrReason)
                  \/ Wrote(NetworkIdReason) \/ Wrote(TranCodeReason))

\* The date parameter of an executed statement: the third parameter of the RTXN
\* statement, the first of every other.
DateParam(e) == IF e.sql = "insert_rtxn_recon_date" THEN e.params[3] ELSE e.params[1]

\* C12: a run has exactly one reconcile date, fixed before the first row: the
\* override with '/' for '-' if one was given, else the current date.  That value
\* is the date parameter of every statement executed in any lane and the date
\* printed in every 'Reconcile Date Updated:' line.
C12_OneReconcileDate ==
    /\ (row_ct >= 1) => reconcile_date = PyStr(ExpectedDate)
    /\ \A k \in 1..Len(events) :
        /\ IsExecute(events[k]) => DateParam(events[k]) = PyStr(ExpectedDate)
        /\ (events[k].op = "write" /\ events[k].text.fixed = "Reconcile Date Updated: ")
                => events[k].text.var = ExpectedDate

\* The RTXN lane of the second row executes with the override 01/15/2024 as its
\* third parameter and prints it.
C12_Witness ==
    /\ RECONCILE_DATE # PyNone
    /\ row_ct = 3
    /\ cur.lane = "rtxn"
    /\ \E k \in 1..Len(events) :
        /\ IsExecute(events[k])
        /\ events[k].params[3] = PyStr(<<"0", "1", "/", "1", "5", "/", "2", "0", "2", "4">>)
    /\ OutcomeLines = <<Write(Text("Reconcile Date Updated: ",
                                   <<"0", "1", "/", "1", "5", "/", "2", "0", "2", "4">>))>>

\* The numerals of the spreadsheet rows 1 to 9.
RowNumerals == <<"1", "2", "3", "4", "5", "6", "7", "8", "9">>

IsRowHeader(e) == e.op = "write" /\ e.text.fixed = "Row "

\* C13: the k-th data row is reported under the header 'Row k+1:', the header row
\* of the spreadsheet being row 1: the rows taken so far have produced exactly
\* the headers 'Row 2' to 'Row i+1', each once and in increasing order, whatever
\* their lanes did, and a run that returns has produced 'Row 2' to 'Row N+1'.
C13_RowNumbering ==
    /\ Len(headers) = i
    /\ \A k \in 1..Len(headers) : headers[k] = Text("Row ", <<RowNumerals[k + 1]>>)
    /\ (pc = "done") => Len(headers) = nrows
    /\ \A k \in 1..Len(events) :
        IsRowHeader(events[k])
            => /\ k = 1
               /\ cur.lane = "none"
               /\ events[k] = Write(Text("Row ", <<RowNumerals[i + 1]>>))
    /\ (cur.lane = "none" /\ events # <<>>) => IsRowHeader(events[1])

\* Two rows reported as 'Row 2' and 'Row 3', the second after a first row was
\* processed, its own last lane having failed in the driver.
C13_Witness ==
    /\ nrows = 2
    /\ pc = "for"
    /\ cur.lane = "visa"
    /\ cur.drv.exc
    /\ headers = <<Text("Row ", <<"2">>), Text("Row ", <<"3">>)>>

IsCursor(e) == e.op = "cursor"
IsCursorExecute(e) == e.op = "cursor_execute"

\* C14: execute_sql never lets an exception out.  If opening the cursor or
\* executing the statement fails it returns (0, the exception's message);
\* otherwise it executes the statement exactly once, with the statement and the
\* parameters it was given, and returns (the cursor's row count, None).
C14_ExecuteSqlNeverRaises ==
    cur.called
        => /\ ~cur.raised
           /\ pc # "raised"
           /\ Len(SelectSeq(events, IsExecute)) = 1
           /\ Len(SelectSeq(events, IsCursor)) = 1
           /\ IF cur.drv.exc
              THEN /\ cur.ret = <<0, PyStr(cur.drv.msg)>>
                   /\ Len(SelectSeq(events, IsCursorExecute))
                        = (IF cur.drv.at = "cursor" THEN 0 ELSE 1)
              ELSE /\ cur.ret = <<cur.drv.rowcount, PyNone>>
                   /\ Len(SelectSeq(events, IsCursorExecute)) = 1
           /\ \A k \in 1..Len(events) :
                IsCursorExecute(events[k])
                    => /\ events[k].sql = SelectSeq(events, IsExecute)[1].sql
                       /\ events[k].params = SelectSeq(events, IsExecute)[1].params
                       /\ events[k].dbh = SelectSeq(events, IsExecute)[1].dbh

\* The cursor could not be opened: nothing was executed, (0, message) came back
\* and the lane went on to report it.
C14_Witness ==
    /\ cur.called
    /\ cur.drv.at = "cursor"
    /\ cur.ret = <<0, PyStr(<<"D", "P", "Y">>)>>
    /\ SelectSeq(events, IsCursorExecute) = <<>>
    /\ OutcomeLines = <<Write(Text("Reconcile Date Not Updated: ", <<"D", "P", "Y">>))>>

\* Some header cell of the worksheet differs from the configured name.
HeaderDiffers ==
    \E k \in 1..Len(valid_column_headers) :
        col_headers[k] # [t |-> "str", name |-> valid_column_headers[k]]

\* C15: if any header cell in the first len(valid_column_headers) columns differs
\* from the configured name, parse_recon_file raises and the run ends before any
\* row is processed: no statement is executed, nothing is committed or rolled
\* back, no row block is written, and nothing more happens.
C15_SchemaErrorAborts ==
    (HeaderDiffers /\ pc # "parse")
        => /\ pc = "aborted"
           /\ i = 0
           /\ row_ct = 0
           /\ headers = <<>>
           /\ events = <<>>
           /\ trail = <<>>
           /\ cur = NoLane
           /\ ~ENABLED Next

\* A worksheet with rows whose last header cell is empty: the run has ended
\* in parse_recon_file.
C15_Witness ==
    /\ col_headers[Len(valid_column_headers)].t = "none"
    /\ nrows = 2
    /\ pc = "aborted"
    /\ headers = <<>>

\* The integer a numeric cell stands for.
CellInt(v) ==
    IF v.t = "int" THEN PyInt(v.n)
    ELSE CASE v.s = <<"4", "2">> -> PyInt(42)
           [] OTHER -> PyInt(0 - 1)

\* The statement template of a lane and its ordered parameters (section 4.3),
\* for the cells a and b the lane read.
TemplateOf(lane) ==
    CASE lane = "detail" -> "update_detail_record"
      [] lane = "payment" -> "update_payment"
      [] lane = "rtxn" -> "insert_rtxn_recon_date"
      [] lane = "mc" -> "update_mc_recon"
      [] lane = "visa" -> "update_visa_recon"

ParamsOf(lane, a, b) ==
    CASE lane \in {"detail", "payment"} -> <<PyStr(ExpectedDate), CellInt(a)>>
      [] lane = "rtxn" ->
            <<CellInt(a), CellInt(b), PyStr(ExpectedDate), CellInt(a), CellInt(b)>>
      [] lane = "mc" -> <<PyStr(ExpectedDate), a>>
      [] lane = "visa" -> <<PyStr(ExpectedDate), a, b>>

\* What the executor returned, given what the driver did.
ExecutorPair ==
    IF cur.drv.exc THEN <<0, PyStr(cur.drv.msg)>> ELSE <<cur.drv.rowcount, PyNone>>

\* C16: the updater of a lane hands the executor, in a single call, the statement
\* template named for its lane with the ordered parameters (Detail:
\* update_detail_record [date, id]; Payment: update_payment [date, id]; RTXN:
\* insert_rtxn_recon_date [acctnbr, rtxnnbr, date, acctnbr, rtxnnbr]; Mastercard:
\* update_mc_recon [date, networkTranId]; Visa: update_visa_recon [date,
\* networkTranId, tranCode]) and returns the executor's pair unchanged.
C16_UpdaterContract ==
    cur.called
        => /\ Len(SelectSeq(events, IsExecute)) = 1
           /\ SelectSeq(events, IsExecute)[1].sql = TemplateOf(cur.lane)
           /\ SelectSeq(events, IsExecute)[1].params = ParamsOf(cur.lane, cur.a, cur.b)
           /\ cur.ret = ExecutorPair

\* The Visa updater called with NETWORK_ID T1 and TRAN_TYPE 'debit' on today's
\* date; the executor's (1, None) came back.
C16_Witness ==
    /\ cur.called
    /\ cur.lane = "visa"
    /\ RECONCILE_DATE = PyNone
    /\ \E k \in 1..Len(events) :
        /\ IsExecute(events[k])
        /\ events[k].sql = "update_visa_recon"
        /\ events[k].params = <<TodayStrftime, PyStr(<<"T", "1">>),
                                PyStr(<<"d", "e", "b", "i", "t">>)>>
    /\ cur.ret = <<1, PyNone>>

\* C17: row fields are nullable.  For a row in which a lane flag or an identifier
\* cell is empty (None) the engine does not raise: a null flag is treated as
\* not-Y, the lane being skipped without writing or calling anything, a null
\* identifier under a Y flag as a validation failure with its reason line and no
\* call of the updater, and processing continues with the next lane or row.
C17_NullCellsTolerated ==
    /\ (cur.lane # "none" /\ cur.flag = PyNone)
        => /\ ~cur.raised
           /\ pc # "raised"
           /\ LabelLines = <<>>
           /\ OutcomeLines = <<>>
           /\ DbCalls = <<>>
    /\ (cur.lane # "none" /\ CurFlagY /\ (cur.a = PyNone \/ cur.b = PyNone))
        => /\ ~cur.raised
           /\ pc # "raised"
           /\ ~cur.called
           /\ OutcomeLines # <<>>

\* C18: in report-only mode no mutation persists: whatever rows and lanes were
\* processed, the committed contents of the payments store and of the ledger
\* store are those of the start, at the end of the run as at every point before.
C18_ReportOnlyPersistsNothing ==
    (RPT_ONLY = "Y") => \A h \in Handles : ~persisted[h]

IsEndTxn(e) == e.op \in {"commit", "rollback"}

\* The positions in the last step of its statement executions, of its commits and
\* rollbacks, and of its outcome lines.
ExecuteAt == {k \in 1..Len(events) : IsExecute(events[k])}
EndTxnAt == {k \in 1..Len(events) : IsEndTxn(events[k])}
OutcomeAt == {k \in 1..Len(events) : IsOutcome(events[k])}

\* C19: each validated lane is its own unit of work.  It hands exactly one
\* statement to the executor, which runs it at most once, also after an error;
\* the next call on any handle after that execution is the lane's one commit or
\* rollback, which comes before the lane's outcome line and is the lane's last
\* call; and at every lane boundary and at the end of the run neither handle has
\* uncommitted work pending.
C19_UnitOfWork ==
    /\ \A h \in Handles : ~pending[h]
    /\ CurValidated
        => /\ Cardinality(ExecuteAt) = 1
           /\ Cardinality(EndTxnAt) = 1
           /\ Len(SelectSeq(events, IsCursorExecute)) <= 1
           /\ \A x \in ExecuteAt, c \in EndTxnAt :
                /\ x < c
                /\ \A k \in (x + 1)..(c - 1) :
                    /\ events[k].op \in {"cursor", "cursor_execute"}
                    /\ events[k].dbh = events[x].dbh
                /\ events[c].dbh = events[x].dbh
                /\ \A o \in OutcomeAt : c < o
                /\ \A k \in (c + 1)..Len(events) : ~IsDbCall(events[k])

\* The RTXN lane in apply mode with a failing statement: one execution, then the
\* commit, then the line that reports the failure.
C19_Witness ==
    /\ cur.lane = "rtxn"
    /\ CurValidated
    /\ RPT_ONLY = "N"
    /\ cur.drv.at = "execute"
    /\ Len(events) = 6
    /\ IsExecute(events[2])
    /\ IsCursorExecute(events[4])
    /\ events[5].op = "commit"
    /\ IsOutcome(events[6])
    /\ \A h \in Handles : ~pending[h]

\* C20: handle routing.  Whatever the Detail Record and Payment lanes execute,
\* commit or roll back is on p2p_dbh and they make no call on dna_dbh; whatever
\* the RTXN, Mastercard and Visa lanes execute, commit or roll back is on dna_dbh
\* and they make no call on p2p_dbh; a lane's commit or rollback is on the handle
\* its statement was executed on.
C20_HandleRouting ==
    /\ \A k \in 1..Len(events) :
        IsDbCall(events[k])
            => /\ cur.lane # "none"
               /\ events[k].dbh = HandleOf(cur.lane)
    /\ \A x \in ExecuteAt, c \in EndTxnAt : events[c].dbh = events[x].dbh
    /\ \A k \in 1..Len(events) : events[k].op = "write" => events[k].dbh = "fh_out"

\* The Mastercard lane executed and rolled back on dna_dbh after the Payment lane
\* of the same row had worked on p2p_dbh.
C20_Witness ==
    /\ cur.lane = "mc"
    /\ cur.called
    /\ RPT_ONLY = "Y"
    /\ \E k \in 1..Len(events) : events[k].op = "rollback" /\ events[k].dbh = "dna_dbh"
    /\ \E k \in 1..Len(events) : IsCursorExecute(events[k]) /\ events[k].dbh = "dna_dbh"
    /\ \E k \in 1..Len(trail) : trail[k].lane = "payment" /\ trail[k].db

\* Where the engine is after a lane: at the next lane of the row, or at the head
\* of the loop after the Visa lane.
AfterLane(lane) ==
    CASE lane = "detail" -> "payment"
      [] lane = "payment" -> "rtxn"
      [] lane = "rtxn" -> "mc"
      [] lane = "mc" -> "visa"
      [] lane = "visa" -> "for"
      [] OTHER -> "none"

\* C21: lanes are independent within a row.  Two runs that differ only in one
\* lane's flag, identifier cells or executor result agree on the outcome lines
\* and the database operations of every other lane of the row and of every lane
\* of every other row.  On one run this says: whatever a lane's flag, cells and
\* executor result are, the engine goes on to the next lane (after the Visa lane
\* to the next row) with the date, the mode and the row counter the run began
\* with, and what the lane itself writes and calls is decided by its own flag,
\* its own cells and its own executor result: it calls the database iff its own
\* flag is Y and its own cells are valid, then with its own template, its own
\* parameters and its own handle.
C21_LanesIndependent ==
    (cur.lane # "none")
        => /\ pc = AfterLane(cur.lane)
           /\ ~cur.raised
           /\ reconcile_date = PyStr(ExpectedDate)
           /\ rpt_only = RPT_ONLY
           /\ row_ct = i + 1
           /\ cur.called <=> CurValidated
           /\ ~cur.called => DbCalls = <<>>
           /\ cur.called
                => SelectSeq(events, IsExecute)
                    = <<[op |-> "execute", dbh |-> HandleOf(cur.lane),
                         sql |-> TemplateOf(cur.lane),
                         params |-> ParamsOf(cur.lane, cur.a, cur.b), text |-> NoText]>>

\* C22: both database handles are closed exactly once per invocation, after the
\* last lane operation of the last row, and nothing is executed, committed or
\* rolled back on a handle after it is closed; this on every way the run can
\* end, a run ended by a schema error included.
C22_HandlesClosedOnce ==
    /\ \A h \in Handles : closes[h] <= 1
    /\ (\E h \in Handles : closes[h] > 0)
        => /\ pc = "closed"
           /\ i = nrows
           /\ events = <<>>
           /\ ~ENABLED Next
    /\ (~ENABLED Next) => \A h \in Handles : closes[h] = 1

====
